---- MODULE Spec2Model ----
(***************************************************************************)
(* Dynamic Time Warping distance of src/src/metric_dtw.rs.                 *)
(*                                                                         *)
(* DynamicTimeWarping owns one child metric and exposes one_to_one(x, y),  *)
(* which fills a len(y) x len(x) cost matrix row by row and returns its    *)
(* bottom-right cell.  The module models one invocation as a frame (the    *)
(* locals of the call) plus the cost matrix the call allocates, and the    *)
(* engine as the child metric table.  Rows and columns are 0-based as in   *)
(* the source; TLA+ sequences are 1-based, so every access goes through    *)
(* the bounds-checked accessors below (a Rust slice index that is out of   *)
(* bounds panics).                                                         *)
(*                                                                         *)
(* The result type U is modelled by the naturals without a width: the      *)
(* child metric tables take their values in Costs and the sums stay far    *)
(* below any width of U.  usize arithmetic keeps a (scaled down) modulus.  *)
(***************************************************************************)
EXTENDS Integers, Sequences, FiniteSets, TLC

VARIABLES child_metric, frame, cost_matrix

vars == <<child_metric, frame, cost_matrix>>

\* ------------------------------------------------------------- bounds
MaxLen == 3
NumCalls == 2

\* the elements of the sequences (T) and the values of the child metric (U)
Elems == {0, 1}
Costs == {0, 1, 2}
Calls == 1..NumCalls

SeqsUpTo(S, n) == UNION {[1..k -> S] : k \in 0..n}
Seqs == SeqsUpTo(Elems, MaxLen)
MetricTables == [Elems \X Elems -> Costs]

\* usize is 64 bits wide on the targets of the crate; the model checker's
\* integers are 32 bits wide, so the modulus is scaled down.  Only the fact
\* that a wrapped index is far out of bounds is used.
UsizeModulus == 2^30

\* ------------------------------------------------- slices and vectors
\* s[i] of a slice or Vec, 0-based; the index must be in bounds.
InBounds(s, i) == i \in 0..(Len(s) - 1)
At(s, i) == s[i + 1]

\* cost_matrix[r][c] is readable
InMatrix(m, r, c) == InBounds(m, r) /\ InBounds(At(m, r), c)

\* a - b on usize: a panic under overflow checks (debug profile), a
\* wrap-around without them (release profile)
SubUsize(a, b, overflow_checks) ==
    IF a >= b THEN [ok |-> TRUE, v |-> a - b]
    ELSE IF overflow_checks THEN [ok |-> FALSE, v |-> 0]
    ELSE [ok |-> TRUE, v |-> (a - b) + UsizeModulus]

\* ------------------------------------------------------ the cell step
\* (variant: the arguments in the other order)
MetricArgsSwapped(x, y, r, c) == <<At(y, r), At(x, c)>>

\* self.child_metric.one_to_one(&[x[c]], &[y[r]])
MetricArgs(x, y, r, c) == <<At(x, c), At(y, r)>>

\* (variants: without the top-left neighbour; without the left neighbour;
\* the top neighbour taken two rows up once there are two rows)
NeighborCellsNoDiag(r, c) ==
    (IF r > 0 THEN << <<r - 1, c>> >> ELSE << >>)
    \o (IF c > 0 THEN << <<r, c - 1>> >> ELSE << >>)

NeighborCellsNoLeft(r, c) ==
    (IF r > 0 THEN << <<r - 1, c>> >> ELSE << >>)
    \o (IF c > 0 /\ r > 0 THEN << <<r - 1, c - 1>> >> ELSE << >>)

NeighborCellsTwoUp(r, c) ==
    (IF r > 1 THEN << <<r - 2, c>> >>
     ELSE IF r > 0 THEN << <<r - 1, c>> >> ELSE << >>)
    \o (IF c > 0 THEN << <<r, c - 1>> >> ELSE << >>)
    \o (IF c > 0 /\ r > 0 THEN << <<r - 1, c - 1>> >> ELSE << >>)

\* the cells pushed to neighbor_costs, in push order: top, left, top-left
NeighborCells(r, c) ==
    (IF r > 0 THEN << <<r - 1, c>> >> ELSE << >>)
    \o (IF c > 0 THEN << <<r, c - 1>> >> ELSE << >>)
    \o (IF c > 0 /\ r > 0 THEN << <<r - 1, c - 1>> >> ELSE << >>)

\* .into_iter().reduce(|a, b| if a < b { a } else { b })
RECURSIVE Reduce(_, _, _)
Reduce(ns, acc, k) ==
    IF k > Len(ns) THEN acc
    ELSE Reduce(ns, IF acc < ns[k] THEN acc ELSE ns[k], k + 1)

\* (variants: the comparison the other way round; the first neighbour
\* taken without a comparison)
RECURSIVE ReduceMax(_, _, _)
ReduceMax(ns, acc, k) ==
    IF k > Len(ns) THEN acc
    ELSE ReduceMax(ns, IF acc > ns[k] THEN acc ELSE ns[k], k + 1)

MinNeighborCostMax(ns) == IF Len(ns) = 0 THEN 0 ELSE ReduceMax(ns, ns[1], 2)

MinNeighborCostFirst(ns) == IF Len(ns) = 0 THEN 0 ELSE ns[1]

\* ... .unwrap_or(U::zero())
MinNeighborCost(ns) == IF Len(ns) = 0 THEN 0 ELSE Reduce(ns, ns[1], 2)

\* (variants: the neighbours left out; the neighbours subtracted)
CellCostDistOnly(dist, min_neighbor_cost) == dist

CellCostSub(dist, min_neighbor_cost) == dist - min_neighbor_cost

\* dist + min_neighbor_cost
CellCost(dist, min_neighbor_cost) == dist + min_neighbor_cost

\* ------------------------------------------------------------- frames
\* The locals of one invocation.  metric_calls and reads record what the
\* invocation did: each child metric call as <<r, c, a, b>>, each cost
\* matrix read as [at, cell, written].
NewFrame(x, y) ==
    [x |-> x, y |-> y, pc |-> "start", r |-> 0, c |-> 0,
     outcome |-> "none", value |-> 0,
     metric_calls |-> << >>, reads |-> {}]

OffFrame == [NewFrame(<< >>, << >>) EXCEPT !.pc = "off"]

Panic(f, kind) == [f EXCEPT !.pc = "done", !.outcome = kind]

\* let mut cost_matrix = Vec::with_capacity(y.len());
EnterStep(f, m) == [f |-> [f EXCEPT !.pc = "row", !.r = 0], m |-> << >>]

\* for r in 0..y.len() { cost_matrix.push(Vec::with_capacity(x.len())); ...
RowStep(f, m) ==
    IF f.r < Len(f.y)
    THEN [f |-> [f EXCEPT !.pc = "col", !.c = 0], m |-> Append(m, << >>)]
    ELSE [f |-> [f EXCEPT !.pc = "ret"], m |-> m]

\* what cell (r, c) adds to the record of the invocation
Logged(f, m, args, cells) ==
    [f EXCEPT !.metric_calls = Append(@, <<f.r, f.c>> \o args),
              !.reads = @ \cup {[at |-> <<f.r, f.c>>, cell |-> cells[k],
                                 written |-> InMatrix(m, cells[k][1], cells[k][2])] :
                                k \in 1..Len(cells)}]

\* neighbor_costs: the values read from the cells, in push order
NeighborCosts(m, cells) ==
    [k \in 1..Len(cells) |-> At(At(m, cells[k][1]), cells[k][2])]

\* the body of the inner loop for cell (r, c): the child metric call, the
\* reads of the neighbours, and the push of the cell's cost to row r
CellWith(f, m, d, args, cells) ==
    IF \/ \E k \in 1..Len(cells) : ~InMatrix(m, cells[k][1], cells[k][2])
       \/ ~InBounds(m, f.r)
    THEN [f |-> Panic(Logged(f, m, args, cells), "panic_index"), m |-> m]
    ELSE [f |-> [Logged(f, m, args, cells) EXCEPT !.c = @ + 1],
          m |-> [m EXCEPT ![f.r + 1] =
                    Append(@, CellCost(d[args],
                                       MinNeighborCost(NeighborCosts(m, cells))))]]

CellStep(f, m, d) ==
    CellWith(f, m, d, MetricArgs(f.x, f.y, f.r, f.c), NeighborCells(f.r, f.c))

\* for c in 0..x.len() { ... }
ColStep(f, m, d) ==
    IF f.c < Len(f.x)
    THEN CellStep(f, m, d)
    ELSE [f |-> [f EXCEPT !.pc = "row", !.r = @ + 1], m |-> m]

\* cost_matrix[y.len() - 1][x.len() - 1]
ReturnStep(f, m, overflow_checks) ==
    LET ri == SubUsize(Len(f.y), 1, overflow_checks)
        ci == SubUsize(Len(f.x), 1, overflow_checks)
    IN  IF ~ri.ok THEN [f |-> Panic(f, "panic_overflow"), m |-> m]
        ELSE IF ~InBounds(m, ri.v) THEN [f |-> Panic(f, "panic_index"), m |-> m]
        ELSE IF ~ci.ok THEN [f |-> Panic(f, "panic_overflow"), m |-> m]
        ELSE IF ~InBounds(At(m, ri.v), ci.v)
        THEN [f |-> Panic(f, "panic_index"), m |-> m]
        ELSE [f |-> [f EXCEPT !.pc = "done", !.outcome = "value",
                              !.value = At(At(m, ri.v), ci.v)],
              m |-> m]

\* one step of an invocation, by its position
StepCall(f, m, d, overflow_checks) ==
    CASE f.pc = "start" -> EnterStep(f, m)
      [] f.pc = "row" -> RowStep(f, m)
      [] f.pc = "col" -> ColStep(f, m, d)
      [] f.pc = "ret" -> ReturnStep(f, m, overflow_checks)
      [] OTHER -> [f |-> f, m |-> m]

\* the steps of an invocation up to its return expression (or its panic)
RECURSIVE RunLoops(_, _)
RunLoops(s, d) ==
    IF s.f.pc \in {"ret", "done", "off"} THEN s
    ELSE RunLoops(StepCall(s.f, s.m, d, TRUE), d)

Returning(s, overflow_checks) ==
    IF s.f.pc = "ret" THEN ReturnStep(s.f, s.m, overflow_checks) ELSE s

RunToDone(f, m, d, overflow_checks) ==
    Returning(RunLoops([f |-> f, m |-> m], d), overflow_checks)

\* The whole of DynamicTimeWarping::one_to_one as a function of its inputs,
\* the child metric and the build profile: the frame it ends in.
one_to_one(x, y, d, overflow_checks) ==
    RunToDone(NewFrame(x, y), << >>, d, overflow_checks).f

\* ------------------------------------------------------------ actions
\* (variant: one cost matrix kept by the engine and used by every call)
MatrixOfShared(i) == 1

\* the cost matrix of call i: a local of the invocation
MatrixOf(i) == i

Apply(i, s) ==
    /\ frame' = [frame EXCEPT ![i] = s.f]
    /\ cost_matrix' = [cost_matrix EXCEPT ![MatrixOf(i)] = s.m]
    /\ UNCHANGED child_metric

\* the return expression of a call whose loops have run, under either
\* build profile
Finish(i, s) ==
    \E overflow_checks \in BOOLEAN : Apply(i, Returning(s, overflow_checks))

\* a whole call, start to return
Call(i) ==
    /\ frame[i].pc = "start"
    /\ Finish(i, RunLoops([f |-> frame[i], m |-> cost_matrix[MatrixOf(i)]],
                          child_metric))

Enter(i) ==
    /\ frame[i].pc = "start"
    /\ Apply(i, EnterStep(frame[i], cost_matrix[MatrixOf(i)]))

RowLoop(i) ==
    /\ frame[i].pc = "row"
    /\ Apply(i, RowStep(frame[i], cost_matrix[MatrixOf(i)]))

ColLoop(i) ==
    /\ frame[i].pc = "col"
    /\ Apply(i, ColStep(frame[i], cost_matrix[MatrixOf(i)], child_metric))

Return(i) ==
    /\ frame[i].pc = "ret"
    /\ \E overflow_checks \in BOOLEAN :
          Apply(i, ReturnStep(frame[i], cost_matrix[MatrixOf(i)],
                              overflow_checks))

\* ----------------------------------------------------- specifications
OnlyCall(f) == [i \in Calls |-> IF i = 1 THEN f ELSE OffFrame]
NoMatrices == [i \in Calls |-> << >>]

\* one call of one_to_one, taken as a whole, on every bounded input
Init ==
    /\ child_metric \in MetricTables
    /\ \E x \in Seqs, y \in Seqs : frame = OnlyCall(NewFrame(x, y))
    /\ cost_matrix = NoMatrices

Next == \E i \in Calls : Call(i)

Spec == Init /\ [][Next]_vars

\* one call of one_to_one, step by step
NextSteps == \E i \in Calls : Enter(i) \/ RowLoop(i) \/ ColLoop(i) \/ Return(i)

SpecSteps == Init /\ [][NextSteps]_vars

\* One call, step by step, under the child metrics that are zero on equal
\* elements.  A call runs to completion in the calling thread (it is
\* never suspended and waits for nothing), hence the weak fairness.
DistanceTables == {d \in MetricTables : \A a \in Elems : d[<<a, a>>] = 0}

InitDistances ==
    /\ child_metric \in DistanceTables
    /\ \E x \in Seqs, y \in Seqs : frame = OnlyCall(NewFrame(x, y))
    /\ cost_matrix = NoMatrices

FairSpecSteps == InitDistances /\ [][NextSteps]_vars /\ WF_vars(NextSteps)

\* the calls of the crate's tests: the child metric is |a - b|
TestElems == 0..9
Manhattan ==
    [p \in TestElems \X TestElems |->
        IF p[1] >= p[2] THEN p[1] - p[2] ELSE p[2] - p[1]]

Copies(v, n) == [k \in 1..n |-> v]

Tests ==
    { [x |-> <<1, 3, 9, 2, 1>>, y |-> <<2, 0, 0, 8, 7, 2>>, cost |-> 9],
      [x |-> <<2, 3, 1, 8, 5, 5, 6>>, y |-> <<8, 7, 9, 2>>, cost |-> 27],
      [x |-> <<2, 3, 1, 8, 5, 5>>, y |-> <<8, 7, 9, 2>>, cost |-> 23],
      [x |-> <<2, 3, 1, 8>>, y |-> <<8, 7, 9, 2>>, cost |-> 23],
      [x |-> <<2, 3, 1>>, y |-> <<8, 7, 9, 2>>, cost |-> 17],
      [x |-> <<2, 3>>, y |-> <<8, 7, 9, 2>>, cost |-> 17],
      [x |-> <<2>>, y |-> <<8, 7, 9, 2>>, cost |-> 18],
      [x |-> <<2, 3, 1, 8, 5>>, y |-> <<8, 7, 9>>, cost |-> 21] }
    \cup { [x |-> Copies(v, 5), y |-> Copies(v, 10), cost |-> 0] :
            v \in TestElems }

InitTests ==
    /\ child_metric = Manhattan
    /\ \E t \in Tests : frame = OnlyCall(NewFrame(t.x, t.y))
    /\ cost_matrix = NoMatrices

SpecTests == InitTests /\ [][NextSteps]_vars

\* concurrent calls on one engine, step by step, in every interleaving
ConcInputs ==
    { << <<0, 1>>, <<1, 1>> >>,
      << <<1, 0, 1>>, <<0>> >>,
      << <<1>>, <<0, 1>> >> }

ConcMetrics == {d \in DistanceTables : d[<<0, 1>>] = 1}

InitConc ==
    /\ child_metric \in ConcMetrics
    /\ frame \in [Calls -> {NewFrame(p[1], p[2]) : p \in ConcInputs}]
    /\ cost_matrix = NoMatrices

SpecConc == InitConc /\ [][NextSteps]_vars

\* ------------------------------------------------------------ queries
TheCall == frame[1]
Returned(f) == f.pc = "done" /\ f.outcome = "value"
NonEmpty(f) == Len(f.x) > 0 /\ Len(f.y) > 0

\* --------------------------------------------------------------- C1
\* Warping paths, written out: every sequence of cells from (0, 0) to
\* (r, c) whose steps each go one cell right, down or diagonally down-right.
RECURSIVE PathsTo(_, _)
PathsTo(r, c) ==
    IF r = 0 /\ c = 0 THEN { << <<0, 0>> >> }
    ELSE LET before ==
                 (IF r > 0 THEN PathsTo(r - 1, c) ELSE {})
                 \cup (IF c > 0 THEN PathsTo(r, c - 1) ELSE {})
                 \cup (IF r > 0 /\ c > 0 THEN PathsTo(r - 1, c - 1) ELSE {})
         IN  {Append(p, <<r, c>>) : p \in before}

RECURSIVE PathCost(_, _, _, _, _)
PathCost(p, x, y, d, k) ==
    IF k > Len(p) THEN 0
    ELSE d[<<At(x, p[k][2]), At(y, p[k][1])>>] + PathCost(p, x, y, d, k + 1)

MinOf(S) == CHOOSE v \in S : \A w \in S : v <= w

MinPathCost(x, y, d) ==
    MinOf({PathCost(p, x, y, d, 1) : p \in PathsTo(Len(y) - 1, Len(x) - 1)})

\* C1: for non-empty x and y and a non-negative child metric, one_to_one
\* returns the minimum, over all warping paths from cell (0, 0) to cell
\* (len(y)-1, len(x)-1), of the sum of d(x[c], y[r]) over the path's cells.
C1_MinWarpingPath ==
    (TheCall.pc = "done" /\ NonEmpty(TheCall)) =>
        /\ TheCall.outcome = "value"
        /\ TheCall.value = MinPathCost(TheCall.x, TheCall.y, child_metric)

\* a call on a full-size grid whose cheapest path is neither free nor the
\* sum of the whole grid's border
C1_Witness ==
    /\ Returned(TheCall)
    /\ Len(TheCall.x) = MaxLen /\ Len(TheCall.y) = MaxLen
    /\ TheCall.value > 0
    /\ \E p \in PathsTo(MaxLen - 1, MaxLen - 1) :
          PathCost(p, TheCall.x, TheCall.y, child_metric, 1) > TheCall.value

\* --------------------------------------------------------------- C2
TestOf(f) == CHOOSE t \in Tests : t.x = f.x /\ t.y = f.y

\* C2: with the child metric |a - b|, each call of the crate's tests
\* returns the cost the test asserts (9; 27, 23, 23, 17, 17, 18 against
\* y = [8,7,9,2]; 21; and 0 for five against ten copies of one value).
C2_TestCosts ==
    TheCall.pc = "done" =>
        /\ TheCall.outcome = "value"
        /\ TheCall.value = TestOf(TheCall).cost

\* the first test has returned 9
C2_Witness ==
    /\ Returned(TheCall)
    /\ TheCall.x = <<1, 3, 9, 2, 1>>
    /\ TheCall.y = <<2, 0, 0, 8, 7, 2>>
    /\ TheCall.value = 9

\* --------------------------------------------------------------- C3
\* C3: a call with x empty or y empty ends in an explicit EmptyInputError:
\* no panic, no out-of-bounds or wrapped index, no numeric distance.
C3_EmptyInputRejected ==
    (TheCall.pc = "done" /\ ~NonEmpty(TheCall)) =>
        TheCall.outcome = "EmptyInputError"

\* --------------------------------------------------------------- C4
ZeroOnEqual(d) == \A a \in Elems : d[<<a, a>>] = 0

\* C4: with a child metric that is zero on equal elements, the distance of
\* a non-empty sequence to itself is zero.
C4_Identity ==
    (TheCall.pc = "done" /\ NonEmpty(TheCall) /\ TheCall.x = TheCall.y
     /\ ZeroOnEqual(child_metric)) =>
        (TheCall.outcome = "value" /\ TheCall.value = 0)

\* a sequence of full length with both elements in it, against itself,
\* under a child metric that is non-zero off the diagonal
C4_Witness ==
    /\ Returned(TheCall)
    /\ TheCall.x = TheCall.y
    /\ Len(TheCall.x) = MaxLen
    /\ \E j, k \in 1..MaxLen : TheCall.x[j] # TheCall.x[k]
    /\ ZeroOnEqual(child_metric)
    /\ child_metric[<<0, 1>>] > 0 /\ child_metric[<<1, 0>>] > 0
    /\ TheCall.value = 0

\* --------------------------------------------------------------- C5
Symmetric(d) == \A a, b \in Elems : d[<<a, b>>] = d[<<b, a>>]

SameValue(f, g) == g.outcome = "value" /\ g.value = f.value

\* C5: with a symmetric child metric and non-empty x and y of equal
\* length, one_to_one(x, y) = one_to_one(y, x).
C5_SymmetricOnEqualLengths ==
    (Returned(TheCall) /\ NonEmpty(TheCall)
     /\ Len(TheCall.x) = Len(TheCall.y) /\ Symmetric(child_metric)) =>
        \A overflow_checks \in BOOLEAN :
            SameValue(TheCall, one_to_one(TheCall.y, TheCall.x, child_metric,
                                          overflow_checks))

\* two different sequences of full length at a positive distance under a
\* symmetric child metric
C5_Witness ==
    /\ Returned(TheCall)
    /\ Len(TheCall.x) = MaxLen /\ Len(TheCall.y) = MaxLen
    /\ TheCall.x # TheCall.y
    /\ Symmetric(child_metric)
    /\ TheCall.value > 0

\* --------------------------------------------------------------- C6
NonNegative(d) == \A p \in DOMAIN d : d[p] >= 0

\* C6: with a child metric whose values are all >= 0, the value returned
\* for non-empty inputs is >= 0.
C6_NonNegative ==
    (TheCall.pc = "done" /\ NonEmpty(TheCall) /\ NonNegative(child_metric)) =>
        (TheCall.outcome = "value" /\ TheCall.value >= 0)

\* a call on a full-size grid that returns exactly zero although the child
\* metric is positive on some pair that occurs in the grid
C6_Witness ==
    /\ Returned(TheCall)
    /\ NonNegative(child_metric)
    /\ Len(TheCall.x) = MaxLen /\ Len(TheCall.y) = MaxLen
    /\ \E j, k \in 1..MaxLen : child_metric[<<TheCall.x[j], TheCall.y[k]>>] > 0
    /\ TheCall.value = 0

\* --------------------------------------------------------------- C7
Padded(f, e, d) == one_to_one(Append(f.x, e), Append(f.y, e), d, TRUE)

NotBelow(f, g) == g.outcome = "value" /\ g.value >= f.value
NotAbove(f, g) == g.outcome = "value" /\ g.value <= f.value

\* C7 as claimed: with a non-negative child metric that is zero on equal
\* elements, appending one element e to both non-empty sequences does not
\* decrease the distance.
C7_PaddingDoesNotDecrease ==
    (Returned(TheCall) /\ NonEmpty(TheCall) /\ ZeroOnEqual(child_metric)) =>
        \A e \in Elems : NotBelow(TheCall, Padded(TheCall, e, child_metric))

\* C7 as amended: under the same conditions, appending one element e to
\* both non-empty sequences does not increase the distance.
C7_PaddingDoesNotIncrease ==
    (Returned(TheCall) /\ NonEmpty(TheCall) /\ ZeroOnEqual(child_metric)) =>
        \A e \in Elems : NotAbove(TheCall, Padded(TheCall, e, child_metric))

\* a call whose distance strictly drops when an element is appended to both
\* sequences
C7_Witness ==
    /\ Returned(TheCall) /\ NonEmpty(TheCall) /\ ZeroOnEqual(child_metric)
    /\ \E e \in Elems :
          Padded(TheCall, e, child_metric).value < TheCall.value

\* --------------------------------------------------------------- C8
Alone(f, d) == one_to_one(f.x, f.y, d, TRUE)

SameOutcome(f, g) == f.outcome = g.outcome /\ f.value = g.value

\* C8: concurrent calls on one engine do not touch each other or the
\* engine: a step of one call changes only that call's frame and cost
\* matrix, and each call returns what it returns when it runs alone.
C8_CallsAreIsolated ==
    /\ [][ /\ child_metric' = child_metric
           /\ \A i \in Calls :
                 frame'[i] # frame[i] =>
                     \A j \in Calls \ {i} :
                         /\ frame'[j] = frame[j]
                         /\ cost_matrix'[j] = cost_matrix[j] ]_vars
    /\ [](\A i \in Calls :
             frame[i].pc = "done" =>
                 SameOutcome(frame[i], Alone(frame[i], child_metric)))

\* one call has returned while another, started before the first returned,
\* is in the middle of its second row
C8_Witness ==
    \E i, j \in Calls :
        /\ i # j
        /\ Returned(frame[i]) /\ frame[i].value > 0
        /\ frame[j].pc = "col" /\ frame[j].r = 1 /\ frame[j].c = 1
        /\ Len(cost_matrix[i]) > 0 /\ Len(cost_matrix[j]) > 1

\* --------------------------------------------------------------- C9
\* the child metric calls of a call on x and y, row by row: (r, c, x[c], y[r])
RowMajorCalls(x, y) ==
    [k \in 1..(Len(x) * Len(y)) |->
        <<(k - 1) \div Len(x), (k - 1) % Len(x),
          At(x, (k - 1) % Len(x)), At(y, (k - 1) \div Len(x))>>]

\* C9: a call on non-empty x and y terminates, having called the child
\* metric exactly len(x) * len(y) times: once per cell (r, c), on
\* (x[c], y[r]), in row-major order.
C9_MetricCalledOncePerCell ==
    /\ <>(TheCall.pc = "done")
    /\ []((TheCall.pc = "done" /\ NonEmpty(TheCall)) =>
             /\ TheCall.outcome = "value"
             /\ TheCall.metric_calls = RowMajorCalls(TheCall.x, TheCall.y))

\* a finished call on a full-size grid with both elements in x and in y
C9_Witness ==
    /\ Returned(TheCall)
    /\ Len(TheCall.metric_calls) = MaxLen * MaxLen
    /\ \E j, k \in 1..MaxLen : TheCall.x[j] # TheCall.x[k]
    /\ \E j, k \in 1..MaxLen : TheCall.y[j] # TheCall.y[k]

\* -------------------------------------------------------------- C10
\* The distance computed with two rows only: the previous row and the row
\* in progress.
TwoRowNeighbors(prev, cur, r, c) ==
    (IF r > 0 THEN {At(prev, c)} ELSE {})
    \cup (IF c > 0 THEN {At(cur, c - 1)} ELSE {})
    \cup (IF r > 0 /\ c > 0 THEN {At(prev, c - 1)} ELSE {})

TwoRowMin(S) == IF S = {} THEN 0 ELSE MinOf(S)

RECURSIVE TwoRowCells(_, _, _, _, _, _, _)
TwoRowCells(prev, cur, x, y, d, r, c) ==
    IF c >= Len(x) THEN cur
    ELSE TwoRowCells(prev,
                     Append(cur, d[<<At(x, c), At(y, r)>>]
                                 + TwoRowMin(TwoRowNeighbors(prev, cur, r, c))),
                     x, y, d, r, c + 1)

RECURSIVE TwoRowRows(_, _, _, _, _)
TwoRowRows(prev, x, y, d, r) ==
    IF r >= Len(y) THEN At(prev, Len(x) - 1)
    ELSE TwoRowRows(TwoRowCells(prev, << >>, x, y, d, r, 0), x, y, d, r + 1)

TwoRowDistance(x, y, d) == TwoRowRows(<< >>, x, y, d, 0)

\* C10: every cell read while computing cell (r, c) lies in row r - 1 or at
\* a smaller column of row r and was written earlier in the same call; and
\* the distance computed with two rows only equals the value returned.
C10_TwoRowsSuffice ==
    /\ \A rd \in TheCall.reads :
          /\ rd.written
          /\ \/ rd.cell[1] = rd.at[1] - 1
             \/ (rd.cell[1] = rd.at[1] /\ rd.cell[2] < rd.at[2])
    /\ (TheCall.pc = "done" /\ NonEmpty(TheCall)) =>
          /\ TheCall.outcome = "value"
          /\ TheCall.value = TwoRowDistance(TheCall.x, TheCall.y, child_metric)

\* a finished call on a full-size grid: cells of its last row were computed
\* from reads of the row before, two rows below the first
C10_Witness ==
    /\ Returned(TheCall)
    /\ Len(TheCall.x) = MaxLen /\ Len(TheCall.y) = MaxLen
    /\ TheCall.value > 0
    /\ \E rd \in TheCall.reads : rd.at[1] = MaxLen - 1 /\ rd.cell[1] = MaxLen - 2
    /\ \E rd \in TheCall.reads : rd.at[1] = rd.cell[1]

====
